---- MODULE Spec2Model ----
(***************************************************************************)
(* FocusFlow (app/app.py): a Streamlit study tracker.  The model has the   *)
(* two CSV files the script reads and writes (as the characters they       *)
(* hold), st.session_state, the wall clock, and one action per user        *)
(* interaction; every interaction is one run of the script top to bottom   *)
(* (header_section, then the selected page).                               *)
(*                                                                         *)
(* Text is a sequence of one-character strings.  Hours are held in         *)
(* hundredths of an hour (the script rounds them to two decimals), dates   *)
(* as the day of January 2024 (1 is 2024-01-01; earlier days are <= 0),    *)
(* the clock in minutes since 2024-01-01 00:00.                            *)
(*                                                                         *)
(* What a run shows (the header's metrics, the Dashboard's charts, the     *)
(* Goals page's rows) is display only: it is given by the operators        *)
(* header_section, Dashboard and GoalsPage over the files and the clock    *)
(* of the state the run ends in.                                           *)
(***************************************************************************)
EXTENDS Integers, Sequences, FiniteSets, TLC

VARIABLES
    logFile,        \* data/study_logs.csv: [exists, data]
    goalsFile,      \* data/goals.csv: [exists, data]
    active_session, \* st.session_state.active_session, or NoSession
    show_end_form,  \* st.session_state.show_end_form (FALSE: key absent)
    page,           \* st.session_state.navigation_radio
    screen,         \* the widgets the last run rendered
    now,            \* datetime.now(), minutes since 2024-01-01 00:00
    appended,       \* history: the entries passed to save_session_to_csv since the last clear
    lastStoreOp     \* history: the last operation on the log, with its write_header

vars == <<logFile, goalsFile, active_session, show_end_form, page, screen, now,
          appended, lastStoreOp>>

-----------------------------------------------------------------------------
(* Characters and numbers as text *)

COMMA == ","
DQUOTE == "\""
LF == "\n"
CR == "\r"

Digits == <<"0", "1", "2", "3", "4", "5", "6", "7", "8", "9">>

IsDigit(c) == \E d \in 1..10 : Digits[d] = c

DigitVal(c) == (CHOOSE d \in 1..10 : Digits[d] = c) - 1

AllDigits(s) == \A i \in 1..Len(s) : IsDigit(s[i])

RECURSIVE NatStr(_)
NatStr(n) == IF n < 10 THEN <<Digits[n + 1]>>
             ELSE NatStr(n \div 10) \o <<Digits[(n % 10) + 1]>>

RECURSIVE NatVal(_)
NatVal(s) == IF s = <<>> THEN 0
             ELSE 10 * NatVal(SubSeq(s, 1, Len(s) - 1)) + DigitVal(s[Len(s)])

\* "%02d"
TwoDigits(n) == <<Digits[(n \div 10) + 1], Digits[(n % 10) + 1]>>

Abs(n) == IF n < 0 THEN 0 - n ELSE n

\* str(int)
IntStr(n) == IF n < 0 THEN <<"-">> \o NatStr(0 - n) ELSE NatStr(n)

\* repr(float) of a value with at most two decimals, given in hundredths
FloatRepr(c) ==
    LET a == Abs(c)
        frac == IF a % 10 = 0 THEN <<Digits[((a % 100) \div 10) + 1]>>
                ELSE TwoDigits(a % 100)
    IN  (IF c < 0 THEN <<"-">> ELSE <<>>) \o NatStr(a \div 100) \o <<".">> \o frac

-----------------------------------------------------------------------------
(* Cells: the values a DataFrame holds *)

StrCell(s) == [t |-> "str", s |-> s, n |-> 0]
IntCell(n) == [t |-> "int", s |-> <<>>, n |-> n]
FloatCell(c) == [t |-> "float", s |-> <<>>, n |-> c]
DateCell(d) == [t |-> "date", s |-> <<>>, n |-> d]
StampCell(m) == [t |-> "datetime", s |-> <<>>, n |-> m]
NaN == [t |-> "nan", s |-> <<>>, n |-> 0]

notna(x) == x.t # "nan"

IsNum(x) == x.t \in {"int", "float"}

\* the numeric value of a cell, in hundredths
Hundredths(x) == IF x.t = "int" THEN 100 * x.n ELSE x.n

\* Python's == between two cells (an int equals the float of the same value; NaN equals nothing)
PyEq(a, b) ==
    \/ IsNum(a) /\ IsNum(b) /\ Hundredths(a) = Hundredths(b)
    \/ a.t = "str" /\ b.t = "str" /\ a.s = b.s

-----------------------------------------------------------------------------
(* pandas.DataFrame.to_csv: a frame is [columns, rows], a row a sequence   *)
(* of cells in column order                                                *)

RECURSIVE DoubleQuotes(_)
DoubleQuotes(s) ==
    IF s = <<>> THEN <<>>
    ELSE (IF Head(s) = DQUOTE THEN <<DQUOTE, DQUOTE>> ELSE <<Head(s)>>)
         \o DoubleQuotes(Tail(s))

\* csv.QUOTE_MINIMAL: a field is quoted when it holds the delimiter, the quote or a line end
NeedsQuote(s) == \E i \in 1..Len(s) : s[i] \in {COMMA, DQUOTE, LF, CR}

QuoteMinimal(s) == IF NeedsQuote(s) THEN <<DQUOTE>> \o DoubleQuotes(s) \o <<DQUOTE>> ELSE s

\* the text to_csv writes for a cell (na_rep is the empty string)
CellText(x) ==
    CASE x.t = "str" -> x.s
      [] x.t = "int" -> IntStr(x.n)
      [] x.t = "float" -> FloatRepr(x.n)
      [] OTHER -> <<>>

RECURSIVE JoinFields(_)
JoinFields(fs) ==
    IF fs = <<>> THEN <<>>
    ELSE IF Len(fs) = 1 THEN QuoteMinimal(fs[1])
    ELSE QuoteMinimal(fs[1]) \o <<COMMA>> \o JoinFields(Tail(fs))

\* one line of the file; a row that is a single empty field is written as ""
CsvLine(fs) == (IF fs = << <<>> >> THEN <<DQUOTE, DQUOTE>> ELSE JoinFields(fs)) \o <<LF>>

RECURSIVE CsvRows(_)
CsvRows(rows) ==
    IF rows = <<>> THEN <<>>
    ELSE CsvLine([j \in 1..Len(rows[1]) |-> CellText(rows[1][j])]) \o CsvRows(Tail(rows))

\* df.to_csv(header=write_header, index=False): the text written
to_csv(df, write_header) ==
    (IF write_header THEN CsvLine(df.columns) ELSE <<>>) \o CsvRows(df.rows)

\* a file: open(mode='w') replaces its content, open(mode='a') adds to it
NoFile == [exists |-> FALSE, data |-> <<>>]

WriteFile(text) == [exists |-> TRUE, data |-> text]

AppendFile(f, text) == [exists |-> TRUE, data |-> f.data \o text]

\* os.path.getsize(f) == 0 / > 0
getsize(f) == Len(f.data)

-----------------------------------------------------------------------------
(* pandas.read_csv: the tokenizer, then the type of each column            *)

\* the tokenizer's state: the finished records, the record and field being read, and
\* where it is: "field", "quoted" (in a quoted field), "qiq" (after a quote in a quoted field)
TokStart == [recs |-> <<>>, rec |-> <<>>, fld |-> <<>>, mode |-> "field", quoted |-> FALSE]

EndField(st) == [st EXCEPT !.rec = Append(st.rec, st.fld), !.fld = <<>>,
                           !.mode = "field", !.quoted = FALSE]

\* a line end: blank lines are skipped (skip_blank_lines=True)
EndRecord(st) ==
    IF st.rec = <<>> /\ st.fld = <<>> /\ ~st.quoted THEN [st EXCEPT !.mode = "field"]
    ELSE [recs |-> Append(st.recs, Append(st.rec, st.fld)), rec |-> <<>>, fld |-> <<>>,
          mode |-> "field", quoted |-> FALSE]

TokStep(st, c) ==
    CASE st.mode = "field" ->
            IF c = COMMA THEN EndField(st)
            ELSE IF c \in {LF, CR} THEN EndRecord(st)
            ELSE IF c = DQUOTE /\ st.fld = <<>> /\ ~st.quoted
                 THEN [st EXCEPT !.mode = "quoted", !.quoted = TRUE]
            ELSE [st EXCEPT !.fld = Append(st.fld, c)]
      [] st.mode = "quoted" ->
            IF c = DQUOTE THEN [st EXCEPT !.mode = "qiq"]
            ELSE [st EXCEPT !.fld = Append(st.fld, c)]
      [] OTHER ->
            IF c = DQUOTE THEN [st EXCEPT !.fld = Append(st.fld, c), !.mode = "quoted"]
            ELSE IF c = COMMA THEN EndField(st)
            ELSE IF c \in {LF, CR} THEN EndRecord(st)
            ELSE [st EXCEPT !.fld = Append(st.fld, c), !.mode = "field"]

\* the tokenizer run over text[lo..hi] from state st.  The range is halved, and the
\* state after the first half is looked at before the second half is read, so that a
\* long file is read without deep recursion.
RECURSIVE TokRun(_, _, _, _)
TokRun(text, lo, hi, st) ==
    IF lo > hi THEN st
    ELSE IF lo = hi THEN TokStep(st, text[lo])
    ELSE LET mid == (lo + hi) \div 2
             left == TokRun(text, lo, mid, st)
         IN  IF left.mode = "field" \/ left.mode # "field"
             THEN TokRun(text, mid + 1, hi, left) ELSE left

\* the records of a CSV text, each a sequence of field texts
Tokenise(text) == EndRecord(TokRun(text, 1, Len(text), TokStart)).recs

\* the default na_values the model's texts can spell
NAValues == {<<>>, <<"N", "A">>, <<"N", "/", "A">>, <<"n", "a", "n">>, <<"N", "a", "N">>,
             <<"n", "u", "l", "l">>, <<"N", "U", "L", "L">>, <<"N", "o", "n", "e">>}

IsNA(tok) == tok \in NAValues

Unsigned(tok) == IF tok # <<>> /\ tok[1] \in {"-", "+"} THEN Tail(tok) ELSE tok

Negative(tok) == tok # <<>> /\ tok[1] = "-"

IsIntText(tok) == Unsigned(tok) # <<>> /\ AllDigits(Unsigned(tok))

DotAt(s) == IF \E i \in 1..Len(s) : s[i] = "." THEN CHOOSE i \in 1..Len(s) : s[i] = "." ELSE 0

\* a decimal with one or two digits after the point (all that repr writes for hours)
IsFloatText(tok) ==
    LET u == Unsigned(tok)
        k == DotAt(u)
    IN  /\ k > 1
        /\ Len(u) - k \in {1, 2}
        /\ AllDigits(SubSeq(u, 1, k - 1))
        /\ AllDigits(SubSeq(u, k + 1, Len(u)))

IsNumText(tok) == IsIntText(tok) \/ IsFloatText(tok)

\* the value of a numeric text, in hundredths
NumText(tok) ==
    LET u == Unsigned(tok)
        k == DotAt(u)
        mag == IF k = 0 THEN 100 * NatVal(u)
               ELSE 100 * NatVal(SubSeq(u, 1, k - 1))
                    + (IF Len(u) - k = 1 THEN 10 * NatVal(SubSeq(u, k + 1, Len(u)))
                       ELSE NatVal(SubSeq(u, k + 1, Len(u))))
    IN  IF Negative(tok) THEN 0 - mag ELSE mag

\* field j of a record; a short record is padded with NaN
FieldOf(rec, j) == IF j <= Len(rec) THEN rec[j] ELSE <<>>

\* the dtype read_csv infers for column j of the data records
ColumnType(recs, j) ==
    LET toks == {FieldOf(recs[k], j) : k \in 1..Len(recs)}
        vals == {tk \in toks : ~IsNA(tk)}
    IN  IF vals = {} THEN "empty"
        ELSE IF \A tk \in vals : IsIntText(tk) THEN (IF vals = toks THEN "int" ELSE "float")
        ELSE IF \A tk \in vals : IsNumText(tk) THEN "float"
        ELSE "object"

ParseCell(tok, type) ==
    IF IsNA(tok) THEN NaN
    ELSE CASE type = "int" -> IntCell(NumText(tok) \div 100)
           [] type = "float" -> FloatCell(NumText(tok))
           [] OTHER -> StrCell(tok)

\* pd.read_csv(text): the first record names the columns; a record longer than the
\* header is a ParserError
read_csv(text) ==
    LET recs == Tokenise(text)
        cols == IF recs = <<>> THEN <<>> ELSE recs[1]
        data == IF recs = <<>> THEN <<>> ELSE Tail(recs)
        types == [j \in 1..Len(cols) |-> ColumnType(data, j)]
    IN  [columns |-> cols,
         rows |-> [k \in 1..Len(data) |->
                     [j \in 1..Len(cols) |-> ParseCell(FieldOf(data[k], j), types[j])]],
         error |-> \E k \in 1..Len(data) : Len(data[k]) > Len(cols)]

\* "name" in df.columns, df[name]
ColIndex(df, name) ==
    IF \E j \in 1..Len(df.columns) : df.columns[j] = name
    THEN CHOOSE j \in 1..Len(df.columns) : df.columns[j] = name
    ELSE 0

HasCol(df, name) == ColIndex(df, name) # 0

Col(df, name) == [k \in 1..Len(df.rows) |-> df.rows[k][ColIndex(df, name)]]

-----------------------------------------------------------------------------
(* Sums, orders and groupby                                                *)

RECURSIVE SumSeq(_)
SumSeq(q) == IF q = <<>> THEN 0 ELSE Head(q) + SumSeq(Tail(q))

\* the characters of the model's texts, in code-point order
AsciiOrder == <<LF, CR, " ", DQUOTE, "+", COMMA, "-", ".", "/",
                "0", "1", "2", "3", "4", "5", "6", "7", "8", "9", ":",
                "A", "B", "C", "D", "E", "F", "G", "H", "I", "J", "K", "L", "M",
                "N", "O", "P", "Q", "R", "S", "T", "U", "V", "W", "X", "Y", "Z",
                "a", "b", "c", "d", "e", "f", "g", "h", "i", "j", "k", "l", "m",
                "n", "o", "p", "q", "r", "s", "t", "u", "v", "w", "x", "y", "z">>

CharRank(c) == CHOOSE i \in 1..Len(AsciiOrder) : AsciiOrder[i] = c

RECURSIVE TextLess(_, _)
TextLess(a, b) ==
    IF b = <<>> THEN FALSE
    ELSE IF a = <<>> THEN TRUE
    ELSE IF a[1] = b[1] THEN TextLess(Tail(a), Tail(b))
    ELSE CharRank(a[1]) < CharRank(b[1])

\* the order groupby(sort=True) puts its keys in
KeyLess(a, b) ==
    IF IsNum(a) /\ IsNum(b) THEN Hundredths(a) < Hundredths(b)
    ELSE IF a.t = "date" /\ b.t = "date" THEN a.n < b.n
    ELSE TextLess(CellText(a), CellText(b))

RECURSIVE SortKeys(_)
SortKeys(S) ==
    IF S = {} THEN <<>>
    ELSE LET m == CHOOSE x \in S : \A y \in S \ {x} : KeyLess(x, y)
         IN  <<m>> \o SortKeys(S \ {m})

\* the cells of q at the indices in I, in index order
RECURSIVE Pick(_, _, _)
Pick(q, I, k) ==
    IF k > Len(q) THEN <<>>
    ELSE (IF k \in I THEN <<q[k]>> ELSE <<>>) \o Pick(q, I, k + 1)

\* the largest value of each group in place of its sum, which C10 tells from GroupSum
GroupMax(keys, vals, I) ==
    LET ks == SortKeys({keys[k] : k \in {i \in I : notna(keys[i])}})
    IN  [g \in 1..Len(ks) |->
            [key |-> ks[g],
             sum |-> CHOOSE v \in {vals[i] : i \in {j \in I : keys[j] = ks[g]}} :
                        \A i \in {j \in I : keys[j] = ks[g]} : vals[i] <= v]]

\* keys.groupby(keys)[vals].sum() over the rows in I: one [key, sum] per key that is
\* not NaN, in key order
GroupSum(keys, vals, I) ==
    LET ks == SortKeys({keys[k] : k \in {i \in I : notna(keys[i])}})
    IN  [g \in 1..Len(ks) |->
            [key |-> ks[g],
             sum |-> SumSeq(Pick(vals, {i \in I : keys[i] = ks[g]}, 1))]]

\* the first key of all, which C11 tells from idxmax
FirstKey(groups) == groups[1].key

\* Series.idxmax(): the first key holding the largest sum
idxmax(groups) ==
    LET g == CHOOSE i \in 1..Len(groups) :
                 /\ \A j \in 1..Len(groups) : groups[j].sum <= groups[i].sum
                 /\ \A j \in 1..(i - 1) : groups[j].sum < groups[i].sum
    IN  groups[g].key

-----------------------------------------------------------------------------
(* Dates and times as the script writes and reads them                     *)

MinutesPerDay == 24 * 60

\* datetime.date() and .time() of a clock value
DateOf(clock) == (clock \div MinutesPerDay) + 1

TimeOf(clock) == clock % MinutesPerDay

Jan2024 == <<"2", "0", "2", "4", "-", "0", "1", "-">>

\* strftime("%Y-%m-%d"), strftime("%H:%M"), strftime("%Y-%m-%d %H:%M:%S")
StrfDate(d) == Jan2024 \o TwoDigits(d)

StrfTime(m) == TwoDigits(m \div 60) \o <<":">> \o TwoDigits(m % 60)

StrfTimestamp(clock) ==
    StrfDate(DateOf(clock)) \o <<" ">> \o StrfTime(TimeOf(clock)) \o <<":", "0", "0">>

IsDateText(s) ==
    /\ Len(s) = 10
    /\ SubSeq(s, 1, 8) = Jan2024
    /\ AllDigits(SubSeq(s, 9, 10))
    /\ NatVal(SubSeq(s, 9, 10)) \in 1..31

IsTimeText(s) ==
    /\ Len(s) = 5
    /\ s[3] = ":"
    /\ AllDigits(SubSeq(s, 1, 2)) /\ AllDigits(SubSeq(s, 4, 5))
    /\ NatVal(SubSeq(s, 1, 2)) < 24 /\ NatVal(SubSeq(s, 4, 5)) < 60

\* pd.to_datetime(x, errors="coerce") of a Date cell: the text cells of the model are
\* read; anything else is NaT
to_datetime(x) ==
    IF x.t = "str" /\ IsDateText(x.s) THEN DateCell(NatVal(SubSeq(x.s, 9, 10))) ELSE NaN

\* pd.to_numeric(x, errors="coerce")
to_numeric(x) ==
    IF IsNum(x) THEN x
    ELSE IF x.t = "str" /\ IsNumText(x.s) THEN FloatCell(NumText(x.s))
    ELSE NaN

\* .fillna(0.0), as hundredths
fillna0(x) == IF notna(x) THEN Hundredths(x) ELSE 0

-----------------------------------------------------------------------------
(* The session log                                                         *)

DateCol == <<"D", "a", "t", "e">>
SubjectCol == <<"S", "u", "b", "j", "e", "c", "t">>
TopicCol == <<"T", "o", "p", "i", "c">>
StartTimeCol == <<"S", "t", "a", "r", "t", " ", "T", "i", "m", "e">>
EndTimeCol == <<"E", "n", "d", " ", "T", "i", "m", "e">>
PlannedEndTimeCol == <<"P", "l", "a", "n", "n", "e", "d", " ", "E", "n", "d", " ", "T", "i", "m", "e">>
HoursCol == <<"H", "o", "u", "r", "s">>
ProductivityCol == <<"P", "r", "o", "d", "u", "c", "t", "i", "v", "i", "t", "y">>
StartMoodCol == <<"S", "t", "a", "r", "t", " ", "M", "o", "o", "d">>
EndMoodCol == <<"E", "n", "d", " ", "M", "o", "o", "d">>
NotesCol == <<"N", "o", "t", "e", "s">>
TimestampCol == <<"T", "i", "m", "e", "s", "t", "a", "m", "p">>

header_columns == <<DateCol, SubjectCol, TopicCol, StartTimeCol, EndTimeCol, PlannedEndTimeCol,
                    HoursCol, ProductivityCol, StartMoodCol, EndMoodCol, NotesCol, TimestampCol>>

\* the value an entry dict holds under a key
Entry(entry_dict, key) == entry_dict.values[ColIndex(entry_dict, key)]

\* a header with every append, which C13 tells from write_header
AlwaysHeader(f) == TRUE

\* save_session_to_csv(entry_dict): the log file afterwards
write_header(f) == ~f.exists \/ getsize(f) = 0

save_session_to_csv(entry_dict, f) ==
    LET df_new == [columns |-> entry_dict.columns, rows |-> <<entry_dict.values>>]
    IN  AppendFile(f, to_csv(df_new, write_header(f)))

\* compute_streak(dates_set, today_date)
RECURSIVE StreakLoop(_, _, _)
StreakLoop(dates_set, cur, streak) ==
    IF cur \in dates_set THEN StreakLoop(dates_set, cur - 1, streak + 1) ELSE streak

\* a count that starts at yesterday, which C4 tells from compute_streak
StreakFromYesterday(dates_set, today_date) == StreakLoop(dates_set, today_date - 1, 0)

compute_streak(dates_set, today_date) == StreakLoop(dates_set, today_date, 0)

\* the "no data" top subject, U+2014
EMDASH == <<"EM DASH">>

\* what the header shows when there is nothing to compute from, or after an exception
NoMetrics(today_date) ==
    [total_hours |-> 0, week_hours |-> 0, streak |-> 0, best_subject |-> EMDASH,
     today_date |-> today_date]

\* df["DateOnly"] and df["Hours"] as header_section makes them
DateOnlyOf(df) ==
    [k \in 1..Len(df.rows) |-> IF HasCol(df, DateCol) THEN to_datetime(Col(df, DateCol)[k])
                               ELSE NaN]

HoursOf(df) ==
    [k \in 1..Len(df.rows) |-> IF HasCol(df, HoursCol)
                               THEN fillna0(to_numeric(Col(df, HoursCol)[k])) ELSE 0]

\* the hours of the rows dated week_start or later
WeekHours(DateOnly, Hours, week_start) ==
    SumSeq(Pick(Hours, {k \in 1..Len(Hours) : notna(DateOnly[k]) /\ DateOnly[k].n >= week_start}, 1))

\* the streak over the dates of the log
StreakOf(dates_set, today_date) ==
    IF dates_set # {} THEN compute_streak(dates_set, today_date) ELSE 0

\* the subject with the most hours
BestSubject(subj) == IF subj # <<>> THEN CellText(idxmax(subj)) ELSE EMDASH

\* the four metrics of a log that was read
HeaderMetrics(df, DateOnly, Hours, today_date) ==
    [total_hours |-> SumSeq(Hours),
     week_hours |-> WeekHours(DateOnly, Hours, today_date - 6),
     streak |-> StreakOf({DateOnly[k].n : k \in {i \in 1..Len(df.rows) : notna(DateOnly[i])}},
                         today_date),
     best_subject |-> BestSubject(IF HasCol(df, SubjectCol) /\ Len(df.rows) > 0
                                  THEN GroupSum(Col(df, SubjectCol), Hours, 1..Len(df.rows))
                                  ELSE <<>>),
     today_date |-> today_date]

HeaderOf(df, today_date) ==
    IF df.error THEN NoMetrics(today_date)
    ELSE HeaderMetrics(df, DateOnlyOf(df), HoursOf(df), today_date)

\* header_section(data_path): the four metrics (hours in hundredths) and the date they
\* were computed for.  The server's zone is taken to be Asia/Kolkata.
header_section(data_path, clock) ==
    IF ~(data_path.exists /\ getsize(data_path) > 0) THEN NoMetrics(DateOf(clock))
    ELSE HeaderOf(read_csv(data_path.data), DateOf(clock))

-----------------------------------------------------------------------------
(* The Dashboard page                                                      *)

\* x.astype(str).str.strip(), then zfill(5) when the text holds a colon
RECURSIVE strip(_)
strip(s) ==
    IF s # <<>> /\ Head(s) = " " THEN strip(Tail(s))
    ELSE IF s # <<>> /\ s[Len(s)] = " " THEN strip(SubSeq(s, 1, Len(s) - 1))
    ELSE s

RECURSIVE zfill(_, _)
zfill(s, width) == IF Len(s) >= width THEN s ELSE zfill(<<"0">> \o s, width)

TimeText(x) ==
    LET str == strip(IF notna(x) THEN CellText(x) ELSE <<"n", "a", "n">>)
    IN  IF \E i \in 1..Len(str) : str[i] = ":" THEN zfill(str, 5) ELSE str

\* pd.to_datetime(Date.dt.strftime("%Y-%m-%d") + " " + time, errors="coerce"), in minutes
DateTimeOf(date, time) ==
    IF notna(date) /\ IsTimeText(TimeText(time))
    THEN StampCell((date.n - 1) * MinutesPerDay
                   + 60 * NatVal(SubSeq(TimeText(time), 1, 2)) + NatVal(SubSeq(TimeText(time), 4, 5)))
    ELSE NaN

\* pd.date_range(start.floor('H'), end, freq='H').hour
HourRange(start, end) ==
    LET first == start - (start % 60)
    IN  [i \in 1..(((end - first) \div 60) + 1) |-> ((first + 60 * (i - 1)) \div 60) % 24]

CountOf(q, h) == Cardinality({i \in 1..Len(q) : q[i] = h})

\* df['Start_dt'] and df['End_dt']; an end before its start is moved to the next day
StartStamps(df, Date, times) ==
    [k \in 1..Len(df.rows) |-> IF times THEN DateTimeOf(Date[k], Col(df, StartTimeCol)[k])
                               ELSE NaN]

EndStamps(df, Date, times) ==
    [k \in 1..Len(df.rows) |-> IF times THEN DateTimeOf(Date[k], Col(df, EndTimeCol)[k])
                               ELSE NaN]

\* the ends left on the day of their date, which C9 tells from NextDay
SameDay(Start_dt, End_raw) == End_raw

NextDay(Start_dt, End_raw) ==
    [k \in 1..Len(End_raw) |->
        IF notna(End_raw[k]) /\ notna(Start_dt[k]) /\ End_raw[k].n < Start_dt[k].n
        THEN StampCell(End_raw[k].n + MinutesPerDay) ELSE End_raw[k]]

\* the rows df[df['Hours'] >= 0] keeps
NonNegative(HoursCell) ==
    {k \in 1..Len(HoursCell) : IsNum(HoursCell[k]) /\ Hundredths(HoursCell[k]) >= 0}

FrameOf(df, Date, HoursCell, Start_dt, End_raw) ==
    [df |-> df, kept |-> NonNegative(HoursCell), Date |-> Date, Start_dt |-> Start_dt,
     End_dt |-> NextDay(Start_dt, End_raw),
     Hours |-> [k \in 1..Len(HoursCell) |-> fillna0(HoursCell[k])]]

FrameWith(df, Date, times) ==
    FrameOf(df, Date, Col(df, HoursCol), StartStamps(df, Date, times),
            EndStamps(df, Date, times))

FrameRead(df) ==
    FrameWith(df, [k \in 1..Len(df.rows) |-> to_datetime(Col(df, DateCol)[k])],
              HasCol(df, StartTimeCol) /\ HasCol(df, EndTimeCol))

\* the frame the Dashboard works on: the file as read, Date parsed, the rows with
\* Hours >= 0 kept, Start_dt and End_dt added
DashboardFrame(f) == FrameRead(read_csv(f.data))

RECURSIVE CumSum(_, _)
CumSum(groups, acc) ==
    IF groups = <<>> THEN <<>>
    ELSE <<[key |-> Head(groups).key, sum |-> acc + Head(groups).sum]>>
         \o CumSum(Tail(groups), acc + Head(groups).sum)

RECURSIVE ExpandHours(_, _)
ExpandHours(fr, k) ==
    IF k > Len(fr.df.rows) THEN <<>>
    ELSE (IF k \in fr.kept /\ notna(fr.Start_dt[k]) /\ notna(fr.End_dt[k])
          THEN HourRange(fr.Start_dt[k].n, fr.End_dt[k].n) ELSE <<>>)
         \o ExpandHours(fr, k + 1)

NoCharts(logs, ok) ==
    [logs |-> logs, ok |-> ok, chart_data |-> <<>>, hour_data |-> <<>>,
     subject_data |-> <<>>, cumulative |-> <<>>]

\* expanded_hours.value_counts().sort_index()
HourCounts(expanded_hours, by_hour) ==
    [g \in 1..Len(by_hour) |->
        [Hour |-> by_hour[g].n, Sessions |-> CountOf(expanded_hours, by_hour[g].n)]]

HourData(expanded_hours) ==
    HourCounts(expanded_hours,
               SortKeys({IntCell(h) : h \in {h \in 0..23 : CountOf(expanded_hours, h) > 0}}))

\* the four charts of a frame; dated are the kept rows with a date
Charts(fr, dated) ==
    [logs |-> TRUE, ok |-> TRUE,
     chart_data |-> IF dated # {} THEN GroupSum(fr.Date, fr.Hours, fr.kept) ELSE <<>>,
     hour_data |-> HourData(ExpandHours(fr, 1)),
     subject_data |-> IF HasCol(fr.df, SubjectCol) /\ fr.kept # {}
                      THEN GroupSum(Col(fr.df, SubjectCol), fr.Hours, fr.kept)
                      ELSE <<>>,
     cumulative |-> IF dated # {} THEN CumSum(GroupSum(fr.Date, fr.Hours, dated), 0)
                    ELSE <<>>]

DashboardOf(fr) ==
    IF fr.df.error \/ ~HasCol(fr.df, DateCol) \/ ~HasCol(fr.df, HoursCol)
    THEN NoCharts(TRUE, FALSE)
    ELSE Charts(fr, {k \in fr.kept : notna(fr.Date[k])})

\* the Dashboard's Overview tab: the four charts' data (empty when a chart is not drawn)
Dashboard(f) ==
    IF ~f.exists \/ getsize(f) = 0 THEN NoCharts(FALSE, TRUE)
    ELSE DashboardOf(DashboardFrame(f))

-----------------------------------------------------------------------------
(* The Goals page                                                          *)

TargetHoursCol == <<"T", "a", "r", "g", "e", "t", "H", "o", "u", "r", "s">>

DSA == <<"D", "S", "A">>
Dev == <<"D", "e", "v">>
DS == <<"D", "S">>
GATE == <<"G", "A", "T", "E">>

default_goals ==
    [columns |-> <<SubjectCol, TargetHoursCol>>,
     rows |-> << <<StrCell(DSA), IntCell(10)>>, <<StrCell(Dev), IntCell(8)>>,
                 <<StrCell(DS), IntCell(6)>>, <<StrCell(GATE), IntCell(12)>> >>]

\* the goal file after the page's first lines: the defaults are written when the file
\* is missing or zero bytes long
LoadGoalsFile(g) ==
    IF ~g.exists \/ getsize(g) = 0 THEN WriteFile(to_csv(default_goals, TRUE)) ELSE g

\* int(x) of a / b * 100: the quotient cut toward zero
TruncPercent(a, b) ==
    IF (a >= 0) = (b > 0) THEN (100 * Abs(a)) \div Abs(b)
    ELSE 0 - ((100 * Abs(a)) \div Abs(b))

\* the percent without clip(upper=100), which C6 tells from Progress
ProgressUnclipped(actual, target) ==
    IF target = 0 THEN 0 ELSE TruncPercent(actual, target)

\* (ActualHours / TargetHours.replace(0, np.inf)) * 100, .clip(upper=100).astype(int)
Progress(actual, target) ==
    IF target = 0 THEN 0
    ELSE IF TruncPercent(actual, target) > 100 THEN 100
    ELSE TruncPercent(actual, target)

\* logs.groupby('Subject')['Hours'].sum() of the Goals page
Actuals(log_df) ==
    GroupSum(Col(log_df, SubjectCol),
             [k \in 1..Len(log_df.rows) |-> fillna0(Col(log_df, HoursCol)[k])],
             1..Len(log_df.rows))

\* the ActualHours a left merge gives a subject
ActualOf(actuals, subject) ==
    IF \E a \in 1..Len(actuals) : actuals[a].key = subject
    THEN actuals[CHOOSE a \in 1..Len(actuals) : actuals[a].key = subject].sum
    ELSE 0

MergedRow(subject, target, actual) ==
    [Subject |-> subject, TargetHours |-> target, ActualHours |-> actual,
     Progress |-> IF IsNum(target) THEN Progress(actual, Hundredths(target)) ELSE 0]

\* goals_df.merge(actuals, how="left"); fillna(0) runs only when there is a log
Merged(goals_df, actuals, logged) ==
    [k \in 1..Len(goals_df.rows) |->
        MergedRow(Col(goals_df, SubjectCol)[k],
                  IF logged /\ ~notna(Col(goals_df, TargetHoursCol)[k]) THEN IntCell(0)
                  ELSE Col(goals_df, TargetHoursCol)[k],
                  ActualOf(actuals, Col(goals_df, SubjectCol)[k]))]

\* st.progress raises outside 0..100
Drawn(merged) ==
    \A k \in 1..Len(merged) :
        IsNum(merged[k].TargetHours) /\ merged[k].Progress \in 0..100

GoalsView(n, merged) == [goals |-> n, merged |-> merged, ok |-> Drawn(merged)]

GoalsOf(goals_df, log_df, logged) ==
    IF \/ goals_df.error \/ log_df.error
       \/ ~(HasCol(goals_df, SubjectCol) /\ HasCol(goals_df, TargetHoursCol))
       \/ (logged /\ ~(HasCol(log_df, SubjectCol) /\ HasCol(log_df, HoursCol)))
    THEN [goals |-> Len(goals_df.rows), merged |-> <<>>, ok |-> FALSE]
    ELSE GoalsView(Len(goals_df.rows),
                   Merged(goals_df, IF logged THEN Actuals(log_df) ELSE <<>>, logged))

NoLogs == [columns |-> <<>>, rows |-> <<>>, error |-> FALSE]

\* the Goals page over goal file g (already loaded) and log file f: the merged rows with
\* their progress, and whether the page got as far as the editor
GoalsPage(g, f) ==
    IF f.exists /\ getsize(f) > 0
    THEN GoalsOf(read_csv(g.data), read_csv(f.data), TRUE)
    ELSE GoalsOf(read_csv(g.data), NoLogs, FALSE)

-----------------------------------------------------------------------------
(* The script: one run per user interaction                                *)

NoSession == [present |-> FALSE]

Pages == {"Log", "Dashboard", "Goals", "Settings"}

\* the Goals page writes the default goals before anything else
GoalsFileAfter(p, g) == IF p = "Goals" THEN LoadGoalsFile(g) ELSE g

\* the widgets a run that ends on page p leaves on the screen
Rendered(p, sess, end_form, g, f) ==
    CASE p = "Log" -> IF ~sess.present THEN "start_form"
                      ELSE IF end_form THEN "end_form" ELSE "active"
      [] p = "Dashboard" -> "dashboard"
      [] p = "Goals" -> IF GoalsPage(LoadGoalsFile(g), f).ok THEN "goals" ELSE "goals_failed"
      [] OTHER -> "settings"

\* a run in which no button is pressed, after dt minutes, on page p
Run(p, dt) ==
    /\ now' = now + dt
    /\ page' = p
    /\ goalsFile' = GoalsFileAfter(p, goalsFile)
    /\ screen' = Rendered(p, active_session, show_end_form, goalsFile, logFile)
    /\ UNCHANGED <<logFile, active_session, show_end_form, appended, lastStoreOp>>

\* the dark mode checkbox: the script runs again and nothing else happens
Rerun(dt) == Run(page, dt)

\* the sidebar radio
Navigate(p, dt) ==
    /\ p # page
    /\ Run(p, dt)

\* round((end_dt - start_dt).total_seconds() / 3600.0, 2), in hundredths, of a
\* difference of m >= 0 minutes
total_hours(m) == (5 * m + 1) \div 3

\* the Start Session form
StartSession(subject, topic, start_time, planned_end_time, start_mood, dt) ==
    /\ screen = "start_form"
    /\ now' = now + dt
    /\ IF ~active_session.present
       THEN /\ active_session' =
                 IF subject # <<>> /\ topic # <<>>
                 THEN [present |-> TRUE, subject |-> subject, topic |-> topic,
                       start_dt |-> now',
                       start_time |-> StrfTime(start_time),
                       planned_end_time |-> StrfTime(planned_end_time),
                       start_mood |-> start_mood]
                 ELSE active_session
            /\ screen' = "start_form"
       ELSE /\ active_session' = active_session
            /\ screen' = IF show_end_form THEN "end_form" ELSE "active"
    /\ UNCHANGED <<logFile, goalsFile, show_end_form, page, appended, lastStoreOp>>

\* the Stop Session and Save button
StopSession(dt) ==
    /\ screen \in {"active", "end_form"}
    /\ now' = now + dt
    /\ show_end_form' = TRUE
    /\ screen' = "end_form"
    /\ UNCHANGED <<logFile, goalsFile, active_session, page, appended, lastStoreOp>>

\* an entry whose Start Mood is the mood given at the end, which C3 tells from NewEntry
NewEntryEndMood(sess, end_dt, end_mood, productivity, notes) ==
    [columns |-> header_columns,
     values |-> <<StrCell(StrfDate(DateOf(sess.start_dt))), StrCell(sess.subject),
                  StrCell(sess.topic), StrCell(sess.start_time),
                  StrCell(StrfTime(TimeOf(end_dt))), StrCell(sess.planned_end_time),
                  FloatCell(total_hours(end_dt - sess.start_dt)), IntCell(productivity),
                  StrCell(end_mood), StrCell(end_mood), StrCell(notes),
                  StrCell(StrfTimestamp(end_dt))>>]

\* the entry the Save Session button builds
NewEntry(sess, end_dt, end_mood, productivity, notes) ==
    [columns |-> header_columns,
     values |-> <<StrCell(StrfDate(DateOf(sess.start_dt))), StrCell(sess.subject),
                  StrCell(sess.topic), StrCell(sess.start_time),
                  StrCell(StrfTime(TimeOf(end_dt))), StrCell(sess.planned_end_time),
                  FloatCell(total_hours(end_dt - sess.start_dt)), IntCell(productivity),
                  StrCell(sess.start_mood), StrCell(end_mood), StrCell(notes),
                  StrCell(StrfTimestamp(end_dt))>>]

\* a Save Session that deletes the session and leaves the form flag as it is, which C12
\* tells from SaveSession
SaveKeepsFlag(end_mood, productivity, notes, dt) ==
    /\ screen = "end_form"
    /\ now' = now + dt
    /\ LET entry == NewEntry(active_session, now', end_mood, productivity, notes)
       IN  /\ logFile' = save_session_to_csv(entry, logFile)
           /\ appended' = Append(appended, entry)
           /\ lastStoreOp' = [op |-> "append", write_header |-> write_header(logFile)]
    /\ active_session' = NoSession
    /\ screen' = "start_form"
    /\ UNCHANGED <<goalsFile, page, show_end_form>>

\* the Save Session button of the end form: the entry is appended, the session and the
\* form flag are deleted, and st.rerun() runs the script again
SaveSession(end_mood, productivity, notes, dt) ==
    /\ screen = "end_form"
    /\ now' = now + dt
    /\ LET entry == NewEntry(active_session, now', end_mood, productivity, notes)
       IN  /\ logFile' = save_session_to_csv(entry, logFile)
           /\ appended' = Append(appended, entry)
           /\ lastStoreOp' = [op |-> "append", write_header |-> write_header(logFile)]
    /\ active_session' = NoSession
    /\ show_end_form' = FALSE
    /\ screen' = "start_form"
    /\ UNCHANGED <<goalsFile, page>>

\* the Save Goals button under the editor, with the edited frame
SaveGoals(edited_df, dt) ==
    /\ screen = "goals"
    /\ now' = now + dt
    /\ goalsFile' = LoadGoalsFile(WriteFile(to_csv(edited_df, TRUE)))
    /\ screen' = Rendered("Goals", active_session, show_end_form,
                          WriteFile(to_csv(edited_df, TRUE)), logFile)
    /\ UNCHANGED <<logFile, active_session, show_end_form, page, appended, lastStoreOp>>

empty_df == [columns |-> header_columns, rows |-> <<>>]

\* the Clear All Study Logs button of the Settings page
ClearLogs(dt) ==
    /\ screen = "settings"
    /\ now' = now + dt
    /\ IF logFile.exists
       THEN /\ logFile' = WriteFile(to_csv(empty_df, TRUE))
            /\ appended' = <<>>
       ELSE UNCHANGED <<logFile, appended>>
    /\ lastStoreOp' = [op |-> "clear", write_header |-> logFile.exists]
    /\ screen' = "settings"
    /\ UNCHANGED <<goalsFile, active_session, show_end_form, page>>

-----------------------------------------------------------------------------
(* Bounds and inputs                                                       *)

\* sessions saved in one behaviour of Spec
MaxRows == 2

\* clock steps in one behaviour of Spec, each of 90 minutes
MaxTicks == 1

\* sessions in the log a behaviour of SpecAgg or SpecGoals starts with
MaxInitRows == 3

\* days the clock advances in one behaviour of SpecAgg
MaxDays == 3

Calm == <<"C", "a", "l", "m">>
FocusMode == <<"F", "o", "c", "u", "s", " ", "M", "o", "d", "e">>

\* what the user puts in the forms
FormSubjects == {<<>>, DSA}
FormTopics == {<<>>, <<"a", COMMA, "b">>}
FormNotes == {<<>>, <<"q", DQUOTE, LF>>}
FormStartTime == 23 * 60 + 30
FormPlannedEnd == 0 * 60 + 30

\* 2024-01-10 23:00 and 2024-01-08 12:00
StartClock == 9 * MinutesPerDay + 23 * 60
AggClock == 7 * MinutesPerDay + 12 * 60

Elapsed == {0, 90}

\* a session of an existing log: the day, the subject, the times (-1: the field is
\* missing) and the hours.  The log outlives the process and is read as it is found:
\* the hours are end_dt - start_dt of two datetime.now() readings of the server's
\* local clock, which are negative when that clock is set back in between, and the
\* Date is the server's local date, which is ahead of the header's Asia/Kolkata today
\* on a server east of it; the Dashboard's own Hours >= 0 filter expects such rows.
AggSessions ==
    {[d |-> 2, subject |-> GATE, start |-> 0 - 1, end |-> 0 - 1, hours |-> 50],
     [d |-> 8, subject |-> DSA, start |-> 23 * 60 + 30, end |-> 30, hours |-> 500],
     [d |-> 9, subject |-> GATE, start |-> 9 * 60 + 5, end |-> 10 * 60 + 15, hours |-> 1200],
     [d |-> 9, subject |-> DSA, start |-> 9 * 60 + 5, end |-> 10 * 60 + 15, hours |-> 0 - 100],
     [d |-> 10, subject |-> DSA, start |-> 10 * 60 + 15, end |-> 10 * 60 + 15, hours |-> 125]}

TimeCell(m) == IF m < 0 THEN NaN ELSE StrCell(StrfTime(m))

OldEntry(x) ==
    [columns |-> header_columns,
     values |-> <<StrCell(StrfDate(x.d)), StrCell(x.subject), StrCell(<<"t">>),
                  TimeCell(x.start), TimeCell(x.end), TimeCell(x.end),
                  FloatCell(x.hours), IntCell(7), StrCell(Calm), StrCell(FocusMode),
                  StrCell(<<>>), StrCell(StrfTimestamp(x.d * MinutesPerDay - 1))>>]

\* the logs of at most MaxInitRows sessions saved in date order
OldLogs ==
    {q \in UNION {[1..n -> AggSessions] : n \in 0..MaxInitRows} :
        \A i \in 1..Len(q) : \A j \in i..Len(q) : q[i].d <= q[j].d}

RECURSIVE SaveAll(_, _)
SaveAll(entries, f) ==
    IF entries = <<>> THEN f
    ELSE SaveAll(Tail(entries), save_session_to_csv(Head(entries), f))

\* the frames the goal editor is saved with: every row deleted; two rows, one target 0
GoalEdits ==
    {[columns |-> <<SubjectCol, TargetHoursCol>>, rows |-> <<>>],
     [columns |-> <<SubjectCol, TargetHoursCol>>,
      rows |-> << <<StrCell(DSA), IntCell(0)>>, <<StrCell(GATE), IntCell(8)>> >>]}

-----------------------------------------------------------------------------
(* Specifications                                                          *)

\* Spec: the script started on an empty log, every interaction open
Init ==
    /\ logFile \in {NoFile, WriteFile(<<>>), WriteFile(to_csv(empty_df, TRUE))}
    /\ goalsFile \in {NoFile, WriteFile(<<>>)}
    /\ active_session = NoSession
    /\ show_end_form = FALSE
    /\ page = "Log"
    /\ screen = "start_form"
    /\ now = StartClock
    /\ appended = <<>>
    /\ lastStoreOp = [op |-> "none", write_header |-> FALSE]

Started == Len(appended) + (IF active_session.present THEN 1 ELSE 0)

\* the clock of a behaviour stops MaxTicks steps of 90 minutes after its start
InTime(dt) == now + dt <= StartClock + 90 * MaxTicks

Next ==
    \/ \E dt \in Elapsed : InTime(dt) /\ Rerun(dt)
    \/ \E dt \in Elapsed, p \in Pages : InTime(dt) /\ Navigate(p, dt)
    \/ \E dt \in Elapsed, subject \in FormSubjects, topic \in FormTopics :
          /\ InTime(dt)
          /\ Started < MaxRows
          /\ StartSession(subject, topic, FormStartTime, FormPlannedEnd, Calm, dt)
    \/ \E dt \in Elapsed : InTime(dt) /\ StopSession(dt)
    \/ \E dt \in Elapsed, notes \in FormNotes :
          InTime(dt) /\ SaveSession(FocusMode, 7, notes, dt)
    \/ \E dt \in Elapsed : InTime(dt) /\ ClearLogs(dt)

Spec == Init /\ [][Next]_vars

\* SpecAgg: the script started on an existing log and looked at over several days
InitAgg ==
    /\ \E q \in OldLogs :
          /\ appended = [i \in 1..Len(q) |-> OldEntry(q[i])]
          /\ logFile = SaveAll([i \in 1..Len(q) |-> OldEntry(q[i])], NoFile)
    /\ goalsFile = NoFile
    /\ active_session = NoSession
    /\ show_end_form = FALSE
    /\ page = "Log"
    /\ screen = "start_form"
    /\ now = AggClock
    /\ lastStoreOp = [op |-> "none", write_header |-> FALSE]

\* the days of a behaviour of SpecAgg
InDays(dt) == now + dt <= AggClock + MinutesPerDay * MaxDays

NextAgg ==
    \/ \E dt \in {0, MinutesPerDay} : InDays(dt) /\ Rerun(dt)
    \/ \E dt \in {0, MinutesPerDay}, p \in {"Log", "Dashboard"} : InDays(dt) /\ Navigate(p, dt)

SpecAgg == InitAgg /\ [][NextAgg]_vars

\* SpecGoals: the script started on an existing log, the goals edited
NextGoals ==
    \/ Rerun(0)
    \/ \E p \in Pages : Navigate(p, 0)
    \/ \E edited_df \in GoalEdits : SaveGoals(edited_df, 0)

SpecGoals == InitAgg /\ [][NextGoals]_vars

-----------------------------------------------------------------------------
(* The session store: appends, clears and what is read back                *)

\* the frame read from a log file; a missing or zero-byte file holds no sessions
load_all(f) ==
    IF f.exists /\ getsize(f) > 0 THEN read_csv(f.data)
    ELSE [columns |-> header_columns, rows |-> <<>>, error |-> FALSE]

\* the rows of frame df are the entries, in order, every field equal
SameRows(df, entries) ==
    /\ ~df.error
    /\ df.columns = header_columns
    /\ Len(df.rows) = Len(entries)
    /\ \A k \in 1..Len(entries) : \A j \in 1..Len(header_columns) :
          j <= Len(df.rows[k]) /\ PyEq(df.rows[k][j], entries[k].values[j])

\* C1: reading the log back yields exactly the sessions appended since the log was
\* last empty, in append order, every field equal to the value appended.
C1_ReadBackEqualsAppended == SameRows(load_all(logFile), appended)

\* C2: after Clear All Study Logs the log reads back as no sessions, and the append
\* that follows a clear leaves the header in place and reads back as exactly the one
\* session appended.
C2_ClearThenAppend ==
    [][/\ (lastStoreOp'.op = "clear" => load_all(logFile').rows = <<>>)
       /\ (lastStoreOp.op = "clear" /\ lastStoreOp'.op = "append"
             => Len(appended') = 1 /\ SameRows(load_all(logFile'), appended'))]_vars

-----------------------------------------------------------------------------
(* The active session                                                      *)

\* the steps of the Log page and the sidebar that are not a save or a clear
StartStep ==
    \E dt \in Elapsed, subject \in FormSubjects, topic \in FormTopics :
        StartSession(subject, topic, FormStartTime, FormPlannedEnd, Calm, dt)

OtherStep ==
    \E dt \in Elapsed : Rerun(dt) \/ StopSession(dt) \/ \E p \in Pages : Navigate(p, dt)

\* the field of a tokenised record under the column called name in the header record
FieldNamed(recs, rec, name) ==
    rec[CHOOSE j \in 1..Len(recs[1]) : recs[1][j] = name]

\* recs is old (or the header alone, when old is empty) and one more record, which
\* holds what session sess captured at its start
OneMoreRecord(old, recs, sess) ==
    /\ Len(recs) = (IF old = <<>> THEN 1 ELSE Len(old)) + 1
    /\ recs[1] = header_columns
    /\ \A k \in 1..Len(old) : recs[k] = old[k]
    /\ FieldNamed(recs, recs[Len(recs)], SubjectCol) = sess.subject
    /\ FieldNamed(recs, recs[Len(recs)], TopicCol) = sess.topic
    /\ FieldNamed(recs, recs[Len(recs)], StartTimeCol) = sess.start_time
    /\ FieldNamed(recs, recs[Len(recs)], PlannedEndTimeCol) = sess.planned_end_time
    /\ FieldNamed(recs, recs[Len(recs)], StartMoodCol) = sess.start_mood

RecordsOf(f) == IF f.exists THEN Tokenise(f.data) ELSE <<>>

\* C3: starting a session and the navigation, Stop and re-render steps leave the log
\* file unchanged; the step that ends an active session appends exactly one record,
\* holding the subject, topic, start time, planned end time and start mood captured
\* at the start; an active session is never replaced by another start.
C3_NotPersistedUntilSaved ==
    [][/\ (logFile' = logFile \/ ~(StartStep \/ OtherStep))
       /\ (active_session.present /\ active_session'.present
             => active_session' = active_session)
       /\ (~active_session.present /\ active_session'.present => StartStep)
       /\ (active_session.present /\ ~active_session'.present
             => /\ OneMoreRecord(RecordsOf(logFile), RecordsOf(logFile'), active_session)
                /\ ~show_end_form')]_vars

\* a session was started at 23:00, stopped and saved after midnight, and the form is
\* back
C3_SavedAfterStop ==
    /\ lastStoreOp.op = "append"
    /\ ~active_session.present
    /\ Len(appended) = 1
    /\ Entry(appended[1], EndTimeCol) = StrCell(StrfTime(30))

-----------------------------------------------------------------------------
(* The aggregates, against the sessions the log was written from           *)

\* the day, the hours (hundredths) and the times (minutes of the day) of an entry
DayOfEntry(e) == NatVal(SubSeq(Entry(e, DateCol).s, 9, 10))

HoursOfEntry(e) == Hundredths(Entry(e, HoursCol))

MinuteOf(cell) == 60 * NatVal(SubSeq(cell.s, 1, 2)) + NatVal(SubSeq(cell.s, 4, 5))

\* the hours of the entries whose index is in I
HoursIn(entries, I) ==
    SumSeq(Pick([k \in 1..Len(entries) |-> HoursOfEntry(entries[k])], I, 1))

LoggedDays == {DayOfEntry(appended[k]) : k \in 1..Len(appended)}

\* the sessions with hours >= 0, which are the ones the Dashboard loads
Loaded == {k \in 1..Len(appended) : HoursOfEntry(appended[k]) >= 0}

\* k days up to and including today are all in S, and the day before them is not
IsStreak(k, S, today) ==
    /\ \A i \in 0..(k - 1) : (today - i) \in S
    /\ (today - k) \notin S

\* C4: compute_streak(dates_set, today) is the number k of consecutive days today,
\* today-1, ..., today-(k-1) that are all in dates_set with today-k not in it (so 0
\* when today is not in it), and it is the streak the header shows.
C4_StreakCountsBack ==
    /\ IsStreak(compute_streak(LoggedDays, DateOf(now)), LoggedDays, DateOf(now))
    /\ header_section(logFile, now).streak = compute_streak(LoggedDays, DateOf(now))

\* the log holds Jan 8, 9 and 10 and is read on Jan 10: the streak is 3
C4_ThreeDays ==
    /\ DateOf(now) = 10
    /\ {8, 9, 10} \subseteq LoggedDays
    /\ header_section(logFile, now).streak = 3

\* the ActualHours the Goals page shows against a subject (0 when it shows none)
ActualShown(merged, subject) ==
    IF \E k \in 1..Len(merged) : merged[k].Subject = StrCell(subject)
    THEN merged[CHOOSE k \in 1..Len(merged) : merged[k].Subject = StrCell(subject)].ActualHours
    ELSE 0

SubjectRows(subject) ==
    {k \in Loaded : Entry(appended[k], SubjectCol) = StrCell(subject)}

NegativeExcluded(header, goals) ==
    /\ header.total_hours = HoursIn(appended, Loaded)
    /\ \A subject \in {DSA, GATE} :
          ActualShown(goals.merged, subject) = HoursIn(appended, SubjectRows(subject))

\* C5: the header's total hours and the Goals page's actual hours per subject are
\* sums over the sessions whose hours are >= 0 only.
C5_NegativeHoursExcluded ==
    NegativeExcluded(header_section(logFile, now),
                     GoalsPage(LoadGoalsFile(goalsFile), logFile))

\* C7: the header's 7-day hours are the hours of exactly the sessions dated from
\* today - 6 days to today.
C7_SevenDayWindow ==
    header_section(logFile, now).week_hours =
        HoursIn(appended, {k \in 1..Len(appended) :
                              /\ DateOf(now) - 6 <= DayOfEntry(appended[k])
                              /\ DayOfEntry(appended[k]) <= DateOf(now)})

-----------------------------------------------------------------------------
(* Goal progress and the goal file                                         *)

\* p is a / t * 100 cut toward zero to a whole number and held to at most 100 (t > 0)
IsTruncatedPercent(p, a, t) ==
    IF a >= t THEN p = 100
    ELSE IF a >= 0 THEN p * t <= 100 * a /\ 100 * a < (p + 1) * t
    ELSE p <= 0 /\ (p - 1) * t < 100 * a /\ 100 * a <= p * t

\* p is a / t * 100 held to at most 100 (t > 0)
IsExactPercent(p, a, t) == IF a >= t THEN p = 100 ELSE p * t = 100 * a

GoalRows(goals) ==
    {k \in 1..Len(goals.merged) : IsNum(goals.merged[k].TargetHours)}

TruncatedProgress(goals) ==
    \A k \in GoalRows(goals) :
        LET row == goals.merged[k]
        IN  /\ Hundredths(row.TargetHours) = 0 => row.Progress = 0
            /\ Hundredths(row.TargetHours) > 0 =>
                  IsTruncatedPercent(row.Progress, row.ActualHours, Hundredths(row.TargetHours))

ExactProgress(goals) ==
    \A k \in GoalRows(goals) :
        LET row == goals.merged[k]
        IN  /\ Hundredths(row.TargetHours) = 0 => row.Progress = 0
            /\ Hundredths(row.TargetHours) > 0 =>
                  IsExactPercent(row.Progress, row.ActualHours, Hundredths(row.TargetHours))

\* C6: for every goal row, the progress percent is 0 when the target is 0, and when
\* the target is positive it is actual / target * 100, held to at most 100 and cut
\* toward zero to a whole number.
C6_ProgressTruncated == TruncatedProgress(GoalsPage(LoadGoalsFile(goalsFile), logFile))

\* C6 as first stated: the percent is actual / target * 100 itself, held to at most 100
C6_ProgressExact == ExactProgress(GoalsPage(LoadGoalsFile(goalsFile), logFile))

HasRow(goals, subject, target, actual, percent) ==
    \E k \in GoalRows(goals) :
        /\ goals.merged[k].Subject = StrCell(subject)
        /\ Hundredths(goals.merged[k].TargetHours) = target
        /\ goals.merged[k].ActualHours = actual
        /\ goals.merged[k].Progress = percent

\* the Goals page shows 5 h against a target of 0 h as 0 percent, and 0.5 h against a
\* target of 8 h (6.25 percent) as 6
C6_CasesShown ==
    /\ screen = "goals"
    /\ HasRow(GoalsPage(goalsFile, logFile), DSA, 0, 500, 0)
    /\ HasRow(GoalsPage(goalsFile, logFile), GATE, 800, 50, 6)

\* C8: a Goals page never works from a goal file that holds no goal rows.
C8_GoalsNeverEmpty ==
    page = "Goals" => GoalsPage(LoadGoalsFile(goalsFile), logFile).goals > 0

-----------------------------------------------------------------------------
(* The Dashboard's charts                                                  *)

\* the loaded sessions that have both a start and an end time
Timed == {k \in Loaded : notna(Entry(appended[k], StartTimeCol))
                         /\ notna(Entry(appended[k], EndTimeCol))}

\* the end of session k in minutes from the midnight before its start: an end earlier
\* than the start is on the next day
EndInstant(k) ==
    LET start == MinuteOf(Entry(appended[k], StartTimeCol))
        end == MinuteOf(Entry(appended[k], EndTimeCol))
    IN  IF end < start THEN end + MinutesPerDay ELSE end

\* the hours, counted from that midnight, session k is counted in: from the hour of its
\* start, hour by hour, up to its end
HourSteps(k) ==
    (MinuteOf(Entry(appended[k], StartTimeCol)) \div 60)..(EndInstant(k) \div 60)

SessionsExpected(h) ==
    Cardinality({x \in UNION {{k} \X HourSteps(k) : k \in Timed} : x[2] % 24 = h})

SessionsShown(hour_data, h) ==
    IF \E g \in 1..Len(hour_data) : hour_data[g].Hour = h
    THEN hour_data[CHOOSE g \in 1..Len(hour_data) : hour_data[g].Hour = h].Sessions
    ELSE 0

HourlyDistribution(d) ==
    /\ d.ok
    /\ \A h \in 0..23 : SessionsShown(d.hour_data, h) = SessionsExpected(h)
    /\ \A g \in 1..Len(d.hour_data) : d.hour_data[g].Sessions > 0

\* C9: each session the Dashboard loads that has both times counts once in every hour
\* bucket from the hour of its start, in one-hour steps, up to its end, the end moved
\* forward 24 hours when it is earlier than the start; a session lacking a time counts
\* in no bucket.
C9_HourlyDistribution == HourlyDistribution(Dashboard(logFile))

\* the Dashboard shows a log holding a 23:30 to 00:30 session and a session without
\* times: buckets 0 and 23 hold one session each and there is no other bucket
C9_MidnightShown ==
    /\ page = "Dashboard"
    /\ \E k \in 1..Len(appended) : ~notna(Entry(appended[k], StartTimeCol))
    /\ Dashboard(logFile).hour_data =
          <<[Hour |-> 0, Sessions |-> 1], [Hour |-> 23, Sessions |-> 1]>>

DayRows(d) == {k \in Loaded : DayOfEntry(appended[k]) = d}

DailyShown(chart_data, d) ==
    IF \E g \in 1..Len(chart_data) : chart_data[g].key = DateCell(d)
    THEN chart_data[CHOOSE g \in 1..Len(chart_data) : chart_data[g].key = DateCell(d)].sum
    ELSE 0

DailyTotals(d) ==
    /\ d.ok
    /\ \A day \in 1..31 : DailyShown(d.chart_data, day) = HoursIn(appended, DayRows(day))
    /\ \A g \in 1..Len(d.chart_data) : DayRows(d.chart_data[g].key.n) # {}
    /\ \A g \in 1..Len(d.chart_data) : \A h \in 1..(g - 1) :
          d.chart_data[h].key.n < d.chart_data[g].key.n
    /\ SumSeq([g \in 1..Len(d.chart_data) |-> d.chart_data[g].sum]) = HoursIn(appended, Loaded)
    /\ Len(d.cumulative) = Len(d.chart_data)
    /\ d.cumulative # <<>> => d.cumulative[Len(d.cumulative)].sum = HoursIn(appended, Loaded)

\* C10: the Dashboard's daily total for each date is the sum of the hours of the loaded
\* sessions with that date, each date once and in date order, and the sum of the daily
\* totals, like the last value of the cumulative series, is the total of the hours of
\* all loaded sessions.
C10_DailyTotalsConserveHours == DailyTotals(Dashboard(logFile))

\* the Dashboard shows a log of two sessions of Jan 8 and one of Jan 9
C10_TwoDaysShown ==
    /\ page = "Dashboard"
    /\ Len(appended) = 3
    /\ Dashboard(logFile).chart_data =
          <<[key |-> DateCell(8), sum |-> 1000], [key |-> DateCell(9), sum |-> 1200]>>

-----------------------------------------------------------------------------
(* The header over a log that is filled, empty or cleared                   *)

\* SpecHeader: the script started on an existing log or on a zero-byte one, looked at
\* over several days, and cleared from the Settings page
InitHeader ==
    \/ InitAgg
    \/ /\ appended = <<>>
       /\ logFile = WriteFile(<<>>)
       /\ goalsFile = NoFile
       /\ active_session = NoSession
       /\ show_end_form = FALSE
       /\ page = "Log"
       /\ screen = "start_form"
       /\ now = AggClock
       /\ lastStoreOp = [op |-> "none", write_header |-> FALSE]

NextHeader ==
    \/ \E dt \in {0, MinutesPerDay} : InDays(dt) /\ Rerun(dt)
    \/ \E dt \in {0, MinutesPerDay}, p \in {"Log", "Settings"} : InDays(dt) /\ Navigate(p, dt)
    \/ \E dt \in {0, MinutesPerDay} : InDays(dt) /\ ClearLogs(dt)

SpecHeader == InitHeader /\ [][NextHeader]_vars

\* the subjects of the sessions in the log and the hours of all sessions of a subject
LoggedSubjects == {Entry(appended[k], SubjectCol).s : k \in 1..Len(appended)}

SubjectHours(subject) ==
    HoursIn(appended, {k \in 1..Len(appended) :
                          Entry(appended[k], SubjectCol) = StrCell(subject)})

BestOrSentinel(header) ==
    IF appended = <<>>
    THEN /\ header.best_subject = EMDASH
         /\ header.total_hours = 0
         /\ header.week_hours = 0
         /\ header.streak = 0
    ELSE /\ header.best_subject \in LoggedSubjects
         /\ \A subject \in LoggedSubjects :
               SubjectHours(subject) <= SubjectHours(header.best_subject)

\* C11: the header's top subject is a subject whose hours, summed over all sessions of
\* the log, are the largest; with no sessions (the log missing, zero bytes long or
\* holding the header alone after a clear) the header shows the sentinel, total hours
\* 0, 7-day hours 0 and streak 0, and reading the log raises no error.
C11_BestSubjectOrSentinel ==
    /\ ~load_all(logFile).error
    /\ BestOrSentinel(header_section(logFile, now))

\* the log holds DSA with 5 h and GATE with 12 h, and the header names GATE
C11_GateLeads ==
    /\ LoggedSubjects = {DSA, GATE}
    /\ SubjectHours(DSA) = 500
    /\ SubjectHours(GATE) = 1200
    /\ header_section(logFile, now).best_subject = GATE

-----------------------------------------------------------------------------
(* The end form flag                                                       *)

StopStep == \E dt \in Elapsed : StopSession(dt)

SaveStep == \E dt \in Elapsed, notes \in FormNotes : SaveSession(FocusMode, 7, notes, dt)

\* C12: the end form flag is set only while an active session exists: a step that sets
\* it is a press of Stop on an active session, the step that removes the active session
\* is a Save Session step and removes the flag with it, and a session that is newly
\* started begins with the flag not set.
C12_EndFormOnlyWhileActive ==
    [][/\ (show_end_form => active_session.present)
       /\ (show_end_form' => active_session'.present)
       /\ (~show_end_form /\ show_end_form' => active_session.present /\ StopStep)
       /\ (active_session.present /\ ~active_session'.present
             => SaveStep /\ ~show_end_form')
       /\ (~active_session.present /\ active_session'.present
             => StartStep /\ ~show_end_form')]_vars

\* a second session is started after the first was stopped and saved
C12_StartedAfterSave ==
    /\ Len(appended) = 1
    /\ lastStoreOp.op = "append"
    /\ active_session.present
    /\ ~show_end_form

-----------------------------------------------------------------------------
(* The header row of the log                                               *)

ClearStep == \E dt \in Elapsed : ClearLogs(dt)

\* the places of the records of a log that are the header row
HeaderRows(recs) == {k \in 1..Len(recs) : recs[k] = header_columns}

OneHeaderFirst(f) == f.exists /\ getsize(f) > 0 => HeaderRows(RecordsOf(f)) = {1}

HeaderAppended(f, g) ==
    Cardinality(HeaderRows(RecordsOf(g))) = Cardinality(HeaderRows(RecordsOf(f))) + 1

\* C13: through appends and clears a log file that exists and is not empty holds
\* exactly one header row, and it is its first row; an append adds a header row exactly
\* when the file was missing or zero bytes long, and a clear of an existing file
\* leaves the header row and nothing else.
C13_OneHeaderFirst ==
    [][/\ OneHeaderFirst(logFile)
       /\ (logFile' = logFile \/ OneHeaderFirst(logFile'))
       /\ (Len(appended') = Len(appended) + 1
             => /\ Len(RecordsOf(logFile')) > Len(RecordsOf(logFile))
                /\ HeaderAppended(logFile, logFile')
                     <=> (~logFile.exists \/ getsize(logFile) = 0))
       /\ (ClearStep /\ logFile.exists
             => RecordsOf(logFile') = <<header_columns>>)]_vars

\* two sessions were appended, the second to a file that held the header and a record
C13_SecondAppend ==
    /\ Len(appended) = 2
    /\ lastStoreOp = [op |-> "append", write_header |-> FALSE]
    /\ Len(RecordsOf(logFile)) = 3
    /\ HeaderRows(RecordsOf(logFile)) = {1}

====
